---- MODULE Spec2Model ----
(***************************************************************************)
(* Model of the task-coordination engine of lsendel/sass                   *)
(* (src/tools/agents/task_coordination.py, class TaskCoordinationAgent).   *)
(*                                                                         *)
(* One engine thread runs a public operation of the agent step by step;    *)
(* the thread pool of the parallel discipline runs the submitted units;    *)
(* a second caller may call stop_coordination at any moment.               *)
(*                                                                         *)
(* _execute_agent is the stand-in for the pluggable unit executor: a unit  *)
(* either returns a compliant result, returns a non-compliant result, or   *)
(* raises.  The fields "execution_time" and "context" of a unit result are *)
(* never read by the coordination code and are left out of the records.    *)
(* Python dicts are functions; d.get(k, default) is Get(d, k, default).    *)
(* A coordination id "coord_<n>" is the number n.                          *)
(*                                                                         *)
(* The module also models the event coordinators                           *)
(* (src/tools/events/event_coordinator.py, src/src/events/event_system.py) *)
(* and the compliance checks of the two ConstitutionalEnforcementAgent     *)
(* classes, the implementation gate and the module-boundary enforcer.      *)
(* They share no state with the coordination engine, so each component has *)
(* a specification of its own: Spec and SpecAgents for the engine,         *)
(* SpecEvents, SpecEventSystem and SpecCompliance for the others.          *)
(***************************************************************************)
EXTENDS Integers, Sequences, FiniteSets, TLC

\* ---------------------------------------------------------------- bounds
Agents == {"a", "b", "c"}
\* MaxUnits: units submitted to one engine over its life (and so the longest
\* unit list); MaxCoord: coordination records; MaxPhases: phases of a workflow.
MaxUnits == 3
MaxCoord == 2
MaxPhases == 2
\* MaxSubscriptions: subscriptions held by one event coordinator; MaxPublish:
\* events in the coordinator's history; MaxFiles: files named by a context.
MaxSubscriptions == 2
MaxPublish == 2
MaxFiles == 1
\* MaxHandlers: handlers attached to one event type of the registry;
\* MaxCalls: calls of coordinate_agents made by the client threads.
MaxHandlers == 2
MaxCalls == 3

\* ------------------------------------------------------------- dictionaries
EmptyDict == << >>

Get(d, k, default) == IF k \in DOMAIN d THEN d[k] ELSE default

Put(d, k, v) == [x \in (DOMAIN d) \cup {k} |-> IF x = k THEN v ELSE d[x]]

Update(d, e) == [x \in (DOMAIN d) \cup (DOMAIN e) |-> IF x \in DOMAIN e THEN e[x] ELSE d[x]]

RECURSIVE SeqsUpTo(_, _)
SeqsUpTo(S, n) ==
    IF n = 0 THEN {<< >>}
    ELSE LET shorter == SeqsUpTo(S, n - 1)
         IN  shorter \cup {Append(s, x) : s \in {t \in shorter : Len(t) = n - 1}, x \in S}

\* Unit ids are opaque to the engine (dictionary keys only), so unit lists
\* are taken up to renaming: the first id of a list is "a", the next new
\* one "b", and so on.  CanonicalFrom(s, h): s goes on that way after a list
\* whose highest id has index h.
AgentIndex(x) == IF x = "a" THEN 1 ELSE IF x = "b" THEN 2 ELSE 3

Highest(S) == IF S = {} THEN 0 ELSE CHOOSE m \in S : \A n \in S : n <= m

HighestAgent(s, h) == Highest({h} \cup {AgentIndex(s[m]) : m \in 1..Len(s)})

CanonicalFrom(s, h) ==
    \A j \in 1..Len(s) : AgentIndex(s[j]) <= 1 + HighestAgent(SubSeq(s, 1, j - 1), h)

ListsFrom(h, b) == {s \in SeqsUpTo(Agents, b) : CanonicalFrom(s, h)}

AgentLists == ListsFrom(0, MaxUnits)

CoordinationPattern == {"SEQUENTIAL", "PARALLEL", "ORCHESTRATED"}

Outcomes == {"ok", "violation", "raise"}

\* AgentTask (lines 34-41): a task names its unit and declares the units it
\* depends on (task, priority and context play no part in the plan).
AgentTask(agent, dependencies) == [agent |-> agent, dependencies |-> dependencies]

\* ------------------------------------------------------------------- state
VARIABLES
    active_coordinations,  \* self.active_coordinations: id -> [agents, pattern, status]
    frame,                 \* the public operation the engine thread is in, or was in last
    pc,                    \* position of the engine thread
    coordination_id,       \* coordinate_agents: the id of its run
    agents,                \* coordinate_agents: its unit list
    pattern,               \* coordinate_agents: its pattern
    locals,                \* the local variables of the discipline in progress
    wf_phases,             \* orchestrate_workflow: phases of the definition
    wf_k,                  \* orchestrate_workflow: index of the phase in progress
    workflow_results,      \* orchestrate_workflow: workflow_results
    ret,                   \* what the public operation returned
    executed,              \* history: unit -> "running" or the executor's outcome
    cancel_boundary,       \* history: a compliance-check boundary passed after a stop
    submitted,             \* history: number of units submitted so far
    event_subscribers,     \* EventCoordinator.event_subscribers: event type -> handlers
    event_history,         \* EventCoordinator.event_history
    subscribers,           \* EventSystem._subscribers: event type -> handlers
    pub,                   \* the publish call in progress, or the last one
    subscribe_log,         \* history: event type -> handlers in the order of the subscribe calls
    active_principles,     \* ConstitutionalEnforcementAgent.active_principles
    call,                  \* the last call of a compliance operation: op, context, result
    listings,              \* history: what the last calls of get_constitutional_principles returned
    event_registry,        \* src EventCoordinator._event_registry: event type -> entry
    registry_call,         \* the last call of an operation of the src EventCoordinator
    callers,               \* client thread -> its position in coordinate_agents and its locals
    started                \* history: the ids of the calls that have recorded their run

engine == <<frame, pc, coordination_id, agents, pattern, locals,
            wf_phases, wf_k, workflow_results, ret>>

\* The event coordinators and the compliance components.
bus == <<event_subscribers, event_history, subscribers, pub, subscribe_log>>

enforcement == <<active_principles, call, listings>>

\* The event coordinator of src/src/events and the clients that call
\* coordinate_agents from threads of their own.
registry == <<event_registry, registry_call>>

threads == <<callers, started>>

vars == <<active_coordinations, engine, executed, cancel_boundary, submitted, bus, enforcement,
          registry, threads>>

\* The locals of a discipline: results, execution_order (sequential), the
\* orchestration plan with the phase and phase_results in progress, the loop
\* index i, the pool's futures and those as_completed has yielded, and
\* completed_agents (coordinate_parallel_execution).  They do not outlive the call.
NoLocals ==
    [results |-> << >>, execution_order |-> << >>, plan |-> << >>, phase |-> 1,
     phase_results |-> << >>, i |-> 1, futures |-> << >>, collected |-> {},
     completed_agents |-> << >>]

\* A unit of a run: <<coordination id, phase index, index in the phase>>.
\* coordinate_parallel_execution keeps no coordination record: its units use id -1.
Unit(id, p, j) == <<id, p, j>>

\* ------------------------------------------------------------ unit results
\* _execute_agent's return value (lines 241-247), for a compliant and a
\* non-compliant unit.
AgentResult(agent, outcome) ==
    [agent |-> agent, status |-> "COMPLETED", constitutional_compliant |-> (outcome = "ok")]

ExecutorError == "executor error"

\* result.get("constitutional_compliant", True)
Compliant(result) == Get(result, "constitutional_compliant", TRUE)

AllCompliant(rs) == \A k \in DOMAIN rs : Compliant(rs[k])

\* --------------------------------------------------------- coordinate_agents
\* self.active_coordinations[coordination_id]["status"] = s
SetStatus(ac, id, s) == [ac EXCEPT ![id].status = s]

\* The except branch of coordinate_agents (lines 102-109).
FailedResult(e, id) == [coordination_successful |-> FALSE, error |-> e, coordination_id |-> id]

\* How the caller of coordinate_agents goes on once it has the result:
\* the public operation returns (pc "idle") or orchestrate_workflow loops.
PhaseName(k) == <<"phase", k>>

\* orchestrate_workflow's return value (lines 285-290).
WorkflowResult(compliant, wres) ==
    [workflow |-> "workflow", orchestration_successful |-> compliant,
     phase_results |-> wres, constitutional_compliant |-> compliant]

\* orchestrate_workflow line 280: the phase passes unless the phase result
\* carries constitutional_compliant = False.
wf_phase_compliant(phase_result) == Get(phase_result, "constitutional_compliant", TRUE)

\* coordinate_multi_agent_workflow lines 382-384: every unit result is overwritten.
simulate_compliance(agent_results) ==
    [a \in DOMAIN agent_results |-> Put(agent_results[a], "constitutional_compliant", TRUE)]

\* coordinate_multi_agent_workflow's return value (lines 386-390).
MultiAgentResult(coordination_result) ==
    [coordination_successful |-> Get(coordination_result, "coordination_successful", FALSE),
     agent_results |-> simulate_compliance(Get(coordination_result, "agent_results", EmptyDict)),
     feature |-> "feature"]

Returned(fr, result, phases, k, wres) ==
    IF fr = "orchestrate_workflow"
    THEN LET w == Put(wres, PhaseName(k), result)
         IN  IF ~wf_phase_compliant(result)
             THEN /\ ret' = WorkflowResult(FALSE, w) /\ pc' = "idle"
                  /\ wf_k' = 1 /\ workflow_results' = EmptyDict
             ELSE IF k = Len(phases)
             THEN /\ ret' = WorkflowResult(TRUE, w) /\ pc' = "idle"
                  /\ wf_k' = 1 /\ workflow_results' = EmptyDict
             ELSE /\ ret' = EmptyDict /\ pc' = "wf_loop"
                  /\ wf_k' = k + 1 /\ workflow_results' = w
    ELSE /\ workflow_results' = wres
         /\ wf_k' = k
         /\ pc' = "idle"
         /\ ret' = IF fr = "coordinate_multi_agent_workflow" THEN MultiAgentResult(result)
                   ELSE result

\* coordinate_agents lines 99-100: the discipline returned normally.
Completed(ac, id, result, fr, phases, k, wres) ==
    /\ active_coordinations' = SetStatus(ac, id, "COMPLETED")
    /\ cancel_boundary' = FALSE
    /\ locals' = NoLocals
    /\ Returned(fr, result, phases, k, wres)

\* Mutant: the exception handler returns without recording FAILED.
Failed_status_kept(ac, id, e, fr, phases, k, wres) ==
    /\ active_coordinations' = ac
    /\ cancel_boundary' = FALSE
    /\ locals' = NoLocals
    /\ Returned(fr, FailedResult(e, id), phases, k, wres)

\* coordinate_agents lines 102-109: the discipline raised.
Failed(ac, id, e, fr, phases, k, wres) ==
    /\ active_coordinations' = SetStatus(ac, id, "FAILED")
    /\ cancel_boundary' = FALSE
    /\ locals' = NoLocals
    /\ Returned(fr, FailedResult(e, id), phases, k, wres)

\* The discipline has more to do: the engine thread stays inside it.
Suspend(ac, cb, pcv, k, wres, loc) ==
    /\ active_coordinations' = ac
    /\ cancel_boundary' = cb
    /\ locals' = loc
    /\ pc' = pcv
    /\ ret' = EmptyDict
    /\ wf_k' = k
    /\ workflow_results' = wres

\* A compliance-check boundary of the run in progress is passed: it is one
\* at which a stop requested earlier could have been observed.
StopPending == active_coordinations[coordination_id].status = "STOPPED"

\* ------------------------------------------------------------- disciplines
\* Mutant: the loop ignores the unit's compliance.
seq_compliant_ignored(result) == TRUE

\* _coordinate_sequential line 123.
seq_compliant(result) == Compliant(result)

\* _coordinate_sequential lines 125-130.
SequentialViolation(rs, agent) ==
    [coordination_successful |-> FALSE, agent_results |-> rs,
     constitutional_violation |-> TRUE, failed_agent |-> agent]

\* _coordinate_sequential lines 132-137.
SequentialSuccess(rs, order) ==
    [coordination_successful |-> TRUE, agent_results |-> rs,
     execution_order |-> order, constitutional_compliant |-> TRUE]

\* _coordinate_parallel line 156.
par_error_result(e) == [error |-> e, constitutional_compliant |-> FALSE]

\* Mutant: the batch is compliant as soon as one unit is.
par_compliant_any(rs) == \E k \in DOMAIN rs : Compliant(rs[k])

\* _coordinate_parallel lines 160-162.
par_compliant(rs) == AllCompliant(rs)

\* _coordinate_parallel lines 164-169.
ParallelResult(rs, ags) ==
    [coordination_successful |-> (Cardinality(DOMAIN rs) = Len(ags)), agent_results |-> rs,
     constitutional_compliant |-> par_compliant(rs), parallel_execution |-> TRUE]

\* ThreadPoolExecutor(max_workers=0) raises ValueError.
MaxWorkersError == "max_workers must be greater than 0"

\* Mutant: the second phase starts one unit early.
create_orchestration_plan_overlapping(ags) ==
    LET n == Len(ags)
    IN  << [name |-> "initialization",
            agents |-> IF n > 1 THEN SubSeq(ags, 1, n \div 2) ELSE ags],
           [name |-> "execution",
            agents |-> IF n > 1 THEN SubSeq(ags, n \div 2, n) ELSE << >>] >>

\* _create_orchestration_plan (lines 211-223).
create_orchestration_plan(ags) ==
    LET n == Len(ags)
    IN  << [name |-> "initialization",
            agents |-> IF n > 1 THEN SubSeq(ags, 1, n \div 2) ELSE ags],
           [name |-> "execution",
            agents |-> IF n > 1 THEN SubSeq(ags, (n \div 2) + 1, n) ELSE << >>] >>

\* The first phase from p on that has a unit, Len(pl) + 1 if there is none.
\* A phase without units executes nothing and passes its check (lines 178-196).
RECURSIVE NextPhase(_, _)
NextPhase(pl, p) ==
    IF p > Len(pl) THEN p
    ELSE IF pl[p].agents # << >> THEN p
    ELSE NextPhase(pl, p + 1)

\* Mutant: the phase check is skipped.
phase_compliant_skipped(prs) == TRUE

\* _coordinate_orchestrated lines 192-194.
phase_compliant(prs) == AllCompliant(prs)

\* _coordinate_orchestrated lines 197-202.
OrchestratedViolation(rs, name) ==
    [coordination_successful |-> FALSE, agent_results |-> rs,
     constitutional_violation |-> TRUE, failed_phase |-> name]

\* _coordinate_orchestrated lines 204-209.
OrchestratedSuccess(rs, pl) ==
    [coordination_successful |-> TRUE, agent_results |-> rs,
     constitutional_compliant |-> TRUE, orchestration_plan |-> pl]

\* ThreadPoolExecutor(max_workers=len(agents)) starts a worker thread for
\* every submitted call (lines 143-147 and 338-346), so every unit of the
\* batch is executing as soon as it is submitted.
Submitted(n) == [j \in 1..n |-> "running"]

Started(id, n) == [u \in {Unit(id, 1, j) : j \in 1..n} |-> "running"]

\* coordinate_agents from its entry to the first point where the engine
\* thread waits for a unit (lines 82-97 and the head of the discipline).
Call(fr, ags, pat, phases, k, wres, ex) ==
    LET id == Cardinality(DOMAIN active_coordinations)
        ac == Put(active_coordinations, id, [agents |-> ags, pattern |-> pat, status |-> "ACTIVE"])
        pl == create_orchestration_plan(ags)
        p1 == NextPhase(pl, 1)
    IN  /\ coordination_id' = id
        /\ agents' = ags
        /\ pattern' = pat
        /\ executed' = IF pat = "PARALLEL" THEN Update(ex, Started(id, Len(ags))) ELSE ex
        /\ IF pat = "SEQUENTIAL"
           THEN IF ags = << >>
                THEN Completed(ac, id, SequentialSuccess(EmptyDict, << >>), fr, phases, k, wres)
                ELSE Suspend(ac, FALSE, "seq_loop", k, wres, NoLocals)
           ELSE IF pat = "PARALLEL"
           THEN IF ags = << >>
                THEN Failed(ac, id, MaxWorkersError, fr, phases, k, wres)
                ELSE Suspend(ac, FALSE, "par_run", k, wres,
                             [NoLocals EXCEPT !.futures = Submitted(Len(ags))])
           ELSE IF p1 > Len(pl)
                THEN Completed(ac, id, OrchestratedSuccess(EmptyDict, pl), fr, phases, k, wres)
                ELSE Suspend(ac, FALSE, "orch_loop", k, wres,
                             [NoLocals EXCEPT !.plan = pl, !.phase = p1])

\* ------------------------------------------------- events and principles
\* An event type name is the sequence of its words: "OrderEvent" is
\* <<"Order", "Event">>.  str.endswith("Event") looks at the last one.
EventTypes == {<<"Order", "Event">>, <<"Order">>}

endswith(name, suffix) == Len(name) > 0 /\ name[Len(name)] = suffix

\* Handlers are the caller's callables; a call of one returns or raises.
Handlers == {"h1", "h2"}

HandlerOutcomes == {"ok", "raise"}

\* No publish call has been made yet.
NoPublish ==
    [bus |-> "none", pc |-> "idle", event_type |-> << >>, aliased |-> FALSE, i |-> 1,
     at_call |-> << >>, invoked |-> << >>, outcomes |-> << >>,
     delivery_results |-> << >>, ret |-> EmptyDict]

\* class ConstitutionalPrinciple(Enum), in definition order: name and value.
ConstitutionalPrinciple ==
    << [name |-> "LIBRARY_FIRST_ARCHITECTURE",      value |-> "LIBRARY_FIRST_ARCHITECTURE"],
       [name |-> "TDD_REQUIRED_NON_NEGOTIABLE",     value |-> "TDD_REQUIRED_NON_NEGOTIABLE"],
       [name |-> "TEST_ORDER_HIERARCHY",            value |-> "TEST_ORDER_HIERARCHY"],
       [name |-> "REAL_DEPENDENCIES_INTEGRATION",   value |-> "REAL_DEPENDENCIES_INTEGRATION"],
       [name |-> "MODULE_COMMUNICATION_VIA_EVENTS", value |-> "MODULE_COMMUNICATION_VIA_EVENTS"],
       [name |-> "OPAQUE_TOKENS_ONLY",              value |-> "OPAQUE_TOKENS_ONLY"],
       [name |-> "GDPR_COMPLIANCE",                 value |-> "GDPR_COMPLIANCE"],
       [name |-> "OBSERVABILITY_REQUIRED",          value |-> "OBSERVABILITY_REQUIRED"] >>

\* _initialize_constitutional_principles: list(ConstitutionalPrinciple).
initialize_constitutional_principles == ConstitutionalPrinciple

\* No compliance operation has been called yet.
NoCall == [op |-> "none", context |-> EmptyDict, checks |-> EmptyDict, result |-> EmptyDict]

\* No operation of the src EventCoordinator has been called yet.
NoRegistryCall == [op |-> "none", event_type |-> << >>, result |-> EmptyDict]

\* The client threads that call coordinate_agents concurrently.
Threads == {"t1", "t2"}

\* A client thread outside coordinate_agents.
NoCaller == [pc |-> "idle", coordination_id |-> 0, agents |-> << >>, pattern |-> "SEQUENTIAL"]

\* --------------------------------------------------------------------- Init
Init ==
    /\ active_coordinations = EmptyDict
    /\ frame = "none"
    /\ pc = "idle"
    /\ coordination_id = 0
    /\ agents = << >>
    /\ pattern = "SEQUENTIAL"
    /\ locals = NoLocals
    /\ wf_phases = << >>
    /\ wf_k = 1
    /\ workflow_results = EmptyDict
    /\ ret = EmptyDict
    /\ executed = EmptyDict
    /\ cancel_boundary = FALSE
    /\ submitted = 0
    /\ event_subscribers = EmptyDict
    /\ event_history = << >>
    /\ subscribers = EmptyDict
    /\ pub = NoPublish
    /\ subscribe_log = EmptyDict
    /\ active_principles = initialize_constitutional_principles
    /\ call = NoCall
    /\ listings = << >>
    /\ event_registry = EmptyDict
    /\ registry_call = NoRegistryCall
    /\ callers = [t \in Threads |-> NoCaller]
    /\ started = << >>

Records == Cardinality(DOMAIN active_coordinations)

\* ------------------------------------------------------- public operations
\* coordinate_agents(agents, pattern), called by a client.
CoordinateAgents(ags, pat) ==
    /\ pc = "idle"
    /\ UNCHANGED <<bus, enforcement, registry, threads>>
    /\ Records < MaxCoord
    /\ submitted + Len(ags) <= MaxUnits
    /\ submitted' = submitted + Len(ags)
    /\ frame' = "coordinate_agents"
    /\ wf_phases' = << >>
    /\ Call("coordinate_agents", ags, pat, << >>, 1, EmptyDict, EmptyDict)

\* coordinate_multi_agent_workflow(complex_feature) (lines 376-379).
CoordinateMultiAgentWorkflow(ags) ==
    /\ pc = "idle"
    /\ UNCHANGED <<bus, enforcement, registry, threads>>
    /\ Records < MaxCoord
    /\ submitted + Len(ags) <= MaxUnits
    /\ submitted' = submitted + Len(ags)
    /\ frame' = "coordinate_multi_agent_workflow"
    /\ wf_phases' = << >>
    /\ Call("coordinate_multi_agent_workflow", ags, "ORCHESTRATED", << >>, 1, EmptyDict, EmptyDict)

\* ---------------------------------------------------- _coordinate_sequential
\* Line 118: the loop calls _execute_agent for the next unit.
SeqStart ==
    /\ pc = "seq_loop"
    /\ UNCHANGED <<bus, enforcement, registry, threads>>
    /\ pc' = "seq_exec"
    /\ executed' = Put(executed, Unit(coordination_id, 1, locals.i), "running")
    /\ UNCHANGED <<submitted, active_coordinations, cancel_boundary, frame, coordination_id, agents,
                   pattern, locals, wf_phases, wf_k, workflow_results, ret>>

\* Lines 118-137: the unit returns or raises, and the loop takes its result.
SeqFinish(o) ==
    /\ pc = "seq_exec"
    /\ UNCHANGED <<bus, enforcement, registry, threads>>
    /\ executed' = Put(executed, Unit(coordination_id, 1, locals.i), o)
    /\ UNCHANGED <<submitted, frame, coordination_id, agents, pattern, wf_phases>>
    /\ IF o = "raise"
       THEN Failed(active_coordinations, coordination_id, ExecutorError,
                   frame, wf_phases, wf_k, workflow_results)
       ELSE LET agent  == agents[locals.i]
                result == AgentResult(agent, o)
                rs     == Put(locals.results, agent, result)
                order  == Append(locals.execution_order, agent)
            IN  IF ~seq_compliant(result)
                THEN Completed(active_coordinations, coordination_id,
                               SequentialViolation(rs, agent),
                               frame, wf_phases, wf_k, workflow_results)
                ELSE IF locals.i = Len(agents)
                THEN Completed(active_coordinations, coordination_id,
                               SequentialSuccess(rs, order),
                               frame, wf_phases, wf_k, workflow_results)
                ELSE Suspend(active_coordinations, cancel_boundary \/ StopPending,
                             "seq_loop", wf_k, workflow_results,
                             [locals EXCEPT !.results = rs, !.execution_order = order,
                                            !.i = locals.i + 1])

\* -------------------------------------------------- _coordinate_orchestrated
\* Line 186: the loop over the phase's units calls _execute_agent.
OrchStart ==
    /\ pc = "orch_loop"
    /\ UNCHANGED <<bus, enforcement, registry, threads>>
    /\ pc' = "orch_exec"
    /\ executed' = Put(executed, Unit(coordination_id, locals.phase, locals.i), "running")
    /\ UNCHANGED <<submitted, active_coordinations, cancel_boundary, frame, coordination_id, agents,
                   pattern, locals, wf_phases, wf_k, workflow_results, ret>>

\* Lines 186-209: the unit returns or raises; after the last unit of the
\* phase the results are merged and the phase is checked.
OrchFinish(o) ==
    /\ pc = "orch_exec"
    /\ UNCHANGED <<bus, enforcement, registry, threads>>
    /\ executed' = Put(executed, Unit(coordination_id, locals.phase, locals.i), o)
    /\ UNCHANGED <<submitted, frame, coordination_id, agents, pattern, wf_phases>>
    /\ IF o = "raise"
       THEN Failed(active_coordinations, coordination_id, ExecutorError,
                   frame, wf_phases, wf_k, workflow_results)
       ELSE LET ph    == locals.plan[locals.phase]
                agent == ph.agents[locals.i]
                prs   == Put(locals.phase_results, agent, AgentResult(agent, o))
                rs    == Update(locals.results, prs)
                next  == NextPhase(locals.plan, locals.phase + 1)
            IN  IF locals.i < Len(ph.agents)
                THEN Suspend(active_coordinations, cancel_boundary, "orch_loop",
                             wf_k, workflow_results,
                             [locals EXCEPT !.phase_results = prs, !.i = locals.i + 1])
                ELSE IF ~phase_compliant(prs)
                THEN Completed(active_coordinations, coordination_id,
                               OrchestratedViolation(rs, ph.name),
                               frame, wf_phases, wf_k, workflow_results)
                ELSE IF next > Len(locals.plan)
                THEN Completed(active_coordinations, coordination_id,
                               OrchestratedSuccess(rs, locals.plan),
                               frame, wf_phases, wf_k, workflow_results)
                ELSE Suspend(active_coordinations, cancel_boundary \/ StopPending,
                             "orch_loop", wf_k, workflow_results,
                             [locals EXCEPT !.results = rs, !.phase_results = EmptyDict,
                                            !.phase = next, !.i = 1])

\* -------------------------------------------------------------- thread pool
\* ------------------------------------------------------ _coordinate_parallel
\* Lines 149-169: a unit's call returns or raises in its worker thread, its
\* future is the next one as_completed yields, and the loop records its
\* result; after the last one the pool is left and the batch is checked.
\* (A future that is done is seen by nothing but as_completed, so the two
\* are one step; the units complete in every order.)
ParCollect(j, o) ==
    /\ pc = "par_run"
    /\ UNCHANGED <<bus, enforcement, registry, threads>>
    /\ j \in (DOMAIN locals.futures) \ locals.collected
    /\ locals.futures[j] = "running"
    /\ executed' = Put(executed, Unit(coordination_id, 1, j), o)
    /\ LET agent == agents[j]
           rs    == Put(locals.results, agent,
                        IF o = "raise" THEN par_error_result(ExecutorError)
                        ELSE AgentResult(agent, o))
           done  == locals.collected \cup {j}
       IN  IF done = DOMAIN locals.futures
           THEN Completed(active_coordinations, coordination_id, ParallelResult(rs, agents),
                          frame, wf_phases, wf_k, workflow_results)
           ELSE Suspend(active_coordinations, cancel_boundary, "par_run",
                        wf_k, workflow_results,
                        [locals EXCEPT !.results = rs, !.collected = done,
                                       !.futures[j] = o])
    /\ UNCHANGED <<submitted, frame, coordination_id, agents, pattern, wf_phases>>

\* ------------------------------------------- coordinate_parallel_execution
\* coordinate_parallel_execution line 357.
pex_error_result(e) == [error |-> e]

\* coordinate_parallel_execution's return value (lines 359-364).
ParallelExecutionResult(rs, done_agents, tasks) ==
    [parallel_coordination_successful |-> (Len(done_agents) = Len(tasks)),
     all_agents_completed |-> (Len(done_agents) = Len(tasks)),
     synchronization_successful |-> TRUE,
     results |-> rs]

\* An exception that leaves a public operation.
Raised(e) == [raised |-> e]

\* coordinate_parallel_execution(agent_tasks) (lines 336-346); a task is
\* modelled by its "agent" entry, the only one the operation reads back.
CoordinateParallelExecution(tasks) ==
    /\ pc = "idle"
    /\ UNCHANGED <<bus, enforcement, registry, threads>>
    /\ submitted + Len(tasks) <= MaxUnits
    /\ submitted' = submitted + Len(tasks)
    /\ frame' = "coordinate_parallel_execution"
    /\ agents' = tasks
    /\ wf_phases' = << >>
    /\ executed' = Started(-1, Len(tasks))
    /\ IF tasks = << >>
       THEN /\ ret' = Raised(MaxWorkersError) /\ pc' = "idle" /\ locals' = NoLocals
       ELSE /\ ret' = EmptyDict /\ pc' = "pex_run"
            /\ locals' = [NoLocals EXCEPT !.futures = Submitted(Len(tasks))]
    /\ UNCHANGED <<active_coordinations, cancel_boundary, coordination_id, pattern,
                   wf_k, workflow_results>>

\* Lines 349-364: as in _coordinate_parallel, one unit completes and is
\* yielded by as_completed.
PexCollect(j, o) ==
    /\ pc = "pex_run"
    /\ UNCHANGED <<bus, enforcement, registry, threads>>
    /\ j \in (DOMAIN locals.futures) \ locals.collected
    /\ locals.futures[j] = "running"
    /\ executed' = Put(executed, Unit(-1, 1, j), o)
    /\ LET agent == agents[j]
           rs    == Put(locals.results, agent,
                        IF o = "raise" THEN pex_error_result(ExecutorError)
                        ELSE AgentResult(agent, o))
           dn    == IF o = "raise" THEN locals.completed_agents
                    ELSE Append(locals.completed_agents, agent)
           done  == locals.collected \cup {j}
       IN  IF done = DOMAIN locals.futures
           THEN /\ ret' = ParallelExecutionResult(rs, dn, agents)
                /\ pc' = "idle"
                /\ locals' = NoLocals
           ELSE /\ ret' = ret
                /\ pc' = "pex_run"
                /\ locals' = [locals EXCEPT !.results = rs, !.completed_agents = dn,
                                            !.collected = done, !.futures[j] = o]
    /\ UNCHANGED <<submitted, active_coordinations, cancel_boundary, frame, coordination_id,
                   agents, pattern, wf_phases, wf_k, workflow_results>>

\* ------------------------------------------------------- orchestrate_workflow
\* A workflow definition's phases: each has a unit list and a pattern.  The
\* phase names are taken to be distinct (PhaseName).
\* The workflows of at most n phases and at most b units in all, after
\* unit ids up to index h.
RECURSIVE WorkflowsWithin(_, _, _)
WorkflowsWithin(n, b, h) ==
    IF n = 0 THEN {<< >>}
    ELSE {<< >>} \cup
         UNION {{<<[agents |-> l, coordination |-> c]>> \o w :
                     w \in WorkflowsWithin(n - 1, b - Len(l), HighestAgent(l, h))} :
                l \in ListsFrom(h, b), c \in CoordinationPattern}

Workflows == WorkflowsWithin(MaxPhases, MaxUnits, 0)

RECURSIVE WorkflowUnits(_)
WorkflowUnits(phases) ==
    IF phases = << >> THEN 0 ELSE Len(Head(phases).agents) + WorkflowUnits(Tail(phases))

\* orchestrate_workflow(workflow_definition) up to its first phase
\* (lines 259-275).
OrchestrateWorkflow(phases) ==
    /\ pc = "idle"
    /\ UNCHANGED <<bus, enforcement, registry, threads>>
    /\ Records + Len(phases) <= MaxCoord
    /\ submitted + WorkflowUnits(phases) <= MaxUnits
    /\ submitted' = submitted + WorkflowUnits(phases)
    /\ frame' = "orchestrate_workflow"
    /\ wf_phases' = phases
    /\ IF phases = << >>
       THEN /\ ret' = WorkflowResult(TRUE, EmptyDict)
            /\ executed' = EmptyDict
            /\ pc' = "idle"
            /\ wf_k' = 1
            /\ workflow_results' = EmptyDict
            /\ locals' = NoLocals
            /\ UNCHANGED <<active_coordinations, cancel_boundary, coordination_id, agents,
                           pattern>>
       ELSE Call("orchestrate_workflow", phases[1].agents, phases[1].coordination,
                 phases, 1, EmptyDict, EmptyDict)

\* The next iteration of the loop over the phases (lines 267-275).
WorkflowNextPhase ==
    /\ pc = "wf_loop"
    /\ UNCHANGED <<bus, enforcement, registry, threads>>
    /\ UNCHANGED <<frame, wf_phases, submitted>>
    /\ Call(frame, wf_phases[wf_k].agents, wf_phases[wf_k].coordination,
            wf_phases, wf_k, workflow_results, executed)

\* ---------------------------------------------------------- stop_coordination
\* stop_coordination(coordination_id) (lines 415-420), from any caller.
StopCoordination(id) ==
    /\ active_coordinations' =
           IF id \in DOMAIN active_coordinations
           THEN SetStatus(active_coordinations, id, "STOPPED")
           ELSE active_coordinations
    /\ UNCHANGED <<engine, executed, cancel_boundary, submitted, bus, enforcement, registry,
                   threads>>

\* get_coordination_status(coordination_id) (lines 411-413).
get_coordination_status(id) ==
    Get(active_coordinations, id, [status |-> "NOT_FOUND"])

Next ==
    \/ \E ags \in AgentLists, pat \in CoordinationPattern : CoordinateAgents(ags, pat)
    \/ SeqStart
    \/ \E o \in Outcomes : SeqFinish(o)
    \/ OrchStart
    \/ \E o \in Outcomes : OrchFinish(o)
    \/ \E j \in 1..MaxUnits, o \in Outcomes : ParCollect(j, o)
    \/ \E ags \in AgentLists : CoordinateMultiAgentWorkflow(ags)
    \/ \E tasks \in AgentLists : CoordinateParallelExecution(tasks)
    \/ \E j \in 1..MaxUnits, o \in Outcomes : PexCollect(j, o)
    \/ \E phases \in Workflows : OrchestrateWorkflow(phases)
    \/ WorkflowNextPhase
    \/ \E id \in 0..(MaxCoord - 1) : StopCoordination(id)

Spec == Init /\ [][Next]_vars

\* The engine driven through coordinate_agents and stop_coordination alone.
NextAgents ==
    \/ \E ags \in AgentLists, pat \in CoordinationPattern : CoordinateAgents(ags, pat)
    \/ SeqStart
    \/ \E o \in Outcomes : SeqFinish(o)
    \/ OrchStart
    \/ \E o \in Outcomes : OrchFinish(o)
    \/ \E j \in 1..MaxUnits, o \in Outcomes : ParCollect(j, o)
    \/ \E id \in 0..(MaxCoord - 1) : StopCoordination(id)

SpecAgents == Init /\ [][NextAgents]_vars

\* ========================================================== concurrent callers
\* coordinate_agents called from several client threads on one
\* TaskCoordinationAgent.  Nothing in lines 82-109 is synchronised: a thread
\* can be preempted between computing its id (line 82) and storing its
\* record (lines 83-87).  The discipline (lines 90-97) reads and writes no
\* attribute of the agent, so of a call made here only its end is kept:
\* it returns or it raises.
CallerLists == ListsFrom(0, 1)

DisciplineOutcomes == {"returned", "raised"}

\* The calls made so far: those that stored their record and those that
\* have computed their id only.
Calls == Len(started) + Cardinality({t \in Threads : callers[t].pc = "named"})

\* Line 82: coordination_id = f"coord_{len(self.active_coordinations)}".
NameCoordination(t, ags, pat) ==
    /\ callers[t].pc = "idle"
    /\ Calls < MaxCalls
    /\ callers' = [callers EXCEPT ![t] = [pc |-> "named", coordination_id |-> Records,
                                          agents |-> ags, pattern |-> pat]]
    /\ UNCHANGED <<active_coordinations, engine, executed, cancel_boundary, submitted, bus,
                   enforcement, registry, started>>

\* Lines 83-87: the record of the run is stored under the id.
RecordCoordination(t) ==
    /\ callers[t].pc = "named"
    /\ active_coordinations' =
           Put(active_coordinations, callers[t].coordination_id,
               [agents |-> callers[t].agents, pattern |-> callers[t].pattern,
                status |-> "ACTIVE"])
    /\ started' = Append(started, callers[t].coordination_id)
    /\ callers' = [callers EXCEPT ![t].pc = "running"]
    /\ UNCHANGED <<engine, executed, cancel_boundary, submitted, bus, enforcement, registry>>

\* Lines 89-109: the discipline returns (line 99) or raises (line 103), and
\* the call returns to the client.
EndCoordination(t, o) ==
    /\ callers[t].pc = "running"
    /\ active_coordinations' =
           SetStatus(active_coordinations, callers[t].coordination_id,
                     IF o = "raised" THEN "FAILED" ELSE "COMPLETED")
    /\ callers' = [callers EXCEPT ![t] = NoCaller]
    /\ UNCHANGED <<engine, executed, cancel_boundary, submitted, bus, enforcement, registry,
                   started>>

NextCallers ==
    \/ \E t \in Threads, ags \in CallerLists, pat \in CoordinationPattern :
           NameCoordination(t, ags, pat)
    \/ \E t \in Threads : RecordCoordination(t)
    \/ \E t \in Threads, o \in DisciplineOutcomes : EndCoordination(t, o)
    \/ \E id \in 0..(MaxCalls - 1) : StopCoordination(id)

SpecCallers == Init /\ [][NextCallers]_vars

\* ============================================================ event coordinator
\* src/tools/events/event_coordinator.py, class EventCoordinator.  publish_event
\* runs handler by handler; a handler, or another caller, may subscribe
\* meanwhile.  The for loop walks the list object held by event_subscribers,
\* so it sees what is appended to that list while it runs; dict.get returns
\* a fresh empty list when the type has no entry.
RECURSIVE Held(_, _)
Held(d, types) ==
    IF types = {} THEN 0
    ELSE LET t == CHOOSE x \in types : TRUE
         IN  Len(d[t]) + Held(d, types \ {t})

Subscriptions(d) == Held(d, DOMAIN d)

Event(t, n) == [event_type |-> t, event_id |-> n]

\* Mutant: a subscription replaces the handlers held for the type.
subscribe_to_event_last_only(es, t, h) == Put(es, t, <<h>>)

\* self.event_subscribers[event_type].append(handler) on a defaultdict(list).
subscribe_to_event(es, t, h) == Put(es, t, Append(Get(es, t, << >>), h))

SubscribeToEvent(t, h) ==
    /\ Subscriptions(event_subscribers) < MaxSubscriptions
    /\ event_subscribers' = subscribe_to_event(event_subscribers, t, h)
    /\ subscribe_log' = Put(subscribe_log, t, Append(Get(subscribe_log, t, << >>), h))
    /\ UNCHANGED <<event_history, subscribers, pub>>
    /\ UNCHANGED <<active_coordinations, engine, executed, cancel_boundary, submitted,
                   enforcement, registry, threads>>

\* Line 61: subscribers = self.event_subscribers.get(event.event_type, []).
PublishEvent(t) ==
    /\ pub.pc = "idle"
    /\ Len(event_history) < MaxPublish
    /\ pub' = [NoPublish EXCEPT !.bus = "EventCoordinator", !.pc = "deliver", !.event_type = t,
                                !.aliased = (t \in DOMAIN event_subscribers),
                                !.at_call = Get(event_subscribers, t, << >>)]
    /\ UNCHANGED <<event_subscribers, event_history, subscribers, subscribe_log>>
    /\ UNCHANGED <<active_coordinations, engine, executed, cancel_boundary, submitted,
                   enforcement, registry, threads>>

\* The local variable subscribers of the publish in progress.
Subscribers == IF pub.aliased THEN event_subscribers[pub.event_type] ELSE << >>

\* Lines 67-77: the entry of delivery_results for one handler.
delivery_result(h, o) ==
    IF o = "ok"
    THEN [subscriber |-> h, delivered |-> TRUE, result |-> "result"]
    ELSE [subscriber |-> h, delivered |-> FALSE, error |-> "error"]

\* Lines 64-77: one turn of the loop; the handler returns or raises.
Deliver(o) ==
    /\ pub.bus = "EventCoordinator"
    /\ pub.pc = "deliver"
    /\ pub.i <= Len(Subscribers)
    /\ LET h == Subscribers[pub.i]
       IN  pub' = [pub EXCEPT !.i = @ + 1,
                              !.invoked = Append(@, h),
                              !.outcomes = Append(@, o),
                              !.delivery_results = Append(@, delivery_result(h, o))]
    /\ UNCHANGED <<event_subscribers, event_history, subscribers, subscribe_log>>
    /\ UNCHANGED <<active_coordinations, engine, executed, cancel_boundary, submitted,
                   enforcement, registry, threads>>

\* Lines 79-87: the loop is over.
PublishEventReturn ==
    /\ pub.bus = "EventCoordinator"
    /\ pub.pc = "deliver"
    /\ pub.i > Len(Subscribers)
    /\ event_history' = Append(event_history, Event(pub.event_type, Len(event_history) + 1))
    /\ pub' = [pub EXCEPT !.pc = "idle",
                          !.ret = [published |-> TRUE,
                                   event_id |-> Len(event_history) + 1,
                                   subscribers_notified |-> Len(Subscribers),
                                   delivery_results |-> pub.delivery_results,
                                   constitutional_compliant |-> TRUE]]
    /\ UNCHANGED <<event_subscribers, subscribers, subscribe_log>>
    /\ UNCHANGED <<active_coordinations, engine, executed, cancel_boundary, submitted,
                   enforcement, registry, threads>>

NextEvents ==
    \/ \E t \in EventTypes, h \in Handlers : SubscribeToEvent(t, h)
    \/ \E t \in EventTypes : PublishEvent(t)
    \/ \E o \in HandlerOutcomes : Deliver(o)
    \/ PublishEventReturn

SpecEvents == Init /\ [][NextEvents]_vars

\* ================================================================ event system
\* src/src/events/event_system.py, class EventSystem.
\* subscribe (lines 24-37).
Subscribe(t, h) ==
    /\ Subscriptions(subscribers) < MaxSubscriptions
    /\ subscribers' = Put(subscribers, t, Append(Get(subscribers, t, << >>), h))
    /\ UNCHANGED <<event_subscribers, event_history, pub, subscribe_log>>
    /\ UNCHANGED <<active_coordinations, engine, executed, cancel_boundary, submitted,
                   enforcement, registry, threads>>

\* publish (line 19): if event_type in self._subscribers.
Publish(t) ==
    /\ pub.pc = "idle"
    /\ pub' = [NoPublish EXCEPT !.bus = "EventSystem", !.pc = "deliver", !.event_type = t,
                                !.aliased = (t \in DOMAIN subscribers),
                                !.at_call = Get(subscribers, t, << >>)]
    /\ UNCHANGED <<event_subscribers, event_history, subscribers, subscribe_log>>
    /\ UNCHANGED <<active_coordinations, engine, executed, cancel_boundary, submitted,
                   enforcement, registry, threads>>

SystemSubscribers == IF pub.aliased THEN subscribers[pub.event_type] ELSE << >>

\* Lines 20-21: one turn of the loop; a handler that raises ends publish,
\* the exception going to the caller.
PublishDeliver(o) ==
    /\ pub.bus = "EventSystem"
    /\ pub.pc = "deliver"
    /\ pub.i <= Len(SystemSubscribers)
    /\ LET h == SystemSubscribers[pub.i]
       IN  pub' = [pub EXCEPT !.i = @ + 1,
                              !.invoked = Append(@, h),
                              !.outcomes = Append(@, o),
                              !.pc = IF o = "raise" THEN "idle" ELSE "deliver",
                              !.ret = IF o = "raise" THEN [raised |-> TRUE] ELSE EmptyDict]
    /\ UNCHANGED <<event_subscribers, event_history, subscribers, subscribe_log>>
    /\ UNCHANGED <<active_coordinations, engine, executed, cancel_boundary, submitted,
                   enforcement, registry, threads>>

\* Line 22: return True.
PublishReturn ==
    /\ pub.bus = "EventSystem"
    /\ pub.pc = "deliver"
    /\ pub.i > Len(SystemSubscribers)
    /\ pub' = [pub EXCEPT !.pc = "idle", !.ret = [returned |-> TRUE]]
    /\ UNCHANGED <<event_subscribers, event_history, subscribers, subscribe_log>>
    /\ UNCHANGED <<active_coordinations, engine, executed, cancel_boundary, submitted,
                   enforcement, registry, threads>>

NextEventSystem ==
    \/ \E t \in EventTypes, h \in Handlers : Subscribe(t, h)
    \/ \E t \in EventTypes : Publish(t)
    \/ \E o \in HandlerOutcomes : PublishDeliver(o)
    \/ PublishReturn

SpecEventSystem == Init /\ [][NextEventSystem]_vars

\* ======================================================= compliance components
\* The operations here are functions of their context (a dict): an action
\* calls one on a context drawn from the keys the operation reads, and
\* call holds the operation, its context and the dict it returned (a list
\* it returned is the field "returned").  An Optional[...] value is a
\* sequence of at most one element.
FileLists == SeqsUpTo({"f"}, MaxFiles)

\* The dicts that hold key k, with a value of V, or do not hold it.
Opt(k, V) == {EmptyDict} \cup {[x \in {k} |-> v] : v \in V}

FileContexts ==
    {Update(a, b) : a \in Opt("implementation_files", FileLists),
                    b \in Opt("test_files", FileLists)}

ChangeContexts ==
    {Update(a, b) : a \in Opt("code_changes", FileLists), b \in Opt("test_changes", FileLists)}

\* class CommunicationType(Enum) of module_boundaries.py, the second
\* blocked pattern of the event coordinator, and a type neither knows.
CommunicationTypes ==
    {"event", "direct_service_call", "shared_data", "api_call", "synchronous_call", "unknown"}

CommunicationContexts ==
    {Update(a, b) : a \in Opt("communication_type", CommunicationTypes),
                    b \in Opt("call_type", {"direct", "event"})}

AttemptContexts == Opt("action", {"implement_without_tests", "implement_with_tests"})

ViolationSeverity == {"CRITICAL", "HIGH", "MEDIUM", "LOW"}

\* _check_module_boundaries and _check_security_compliance are the
\* stand-ins for the pluggable checks: a check passes (None), returns a
\* violation of some severity, or raises.
CheckOutcomes == {"pass", "raise"} \cup ViolationSeverity

Checks == [module_boundaries : CheckOutcomes, security_compliance : CheckOutcomes]

Called(op, ctx, checks, result) ==
    /\ call' = [op |-> op, context |-> ctx, checks |-> checks, result |-> result]
    /\ UNCHANGED <<active_coordinations, engine, executed, cancel_boundary, submitted, bus,
                   registry, threads>>

\* ----------------------------- tools/agents: ConstitutionalEnforcementAgent
\* _check_tdd_compliance (lines 98-111).
check_tdd_compliance(ctx) ==
    IF Len(Get(ctx, "implementation_files", << >>)) > 0 /\ Len(Get(ctx, "test_files", << >>)) = 0
    THEN << [principle |-> "TDD_REQUIRED_NON_NEGOTIABLE", severity |-> "CRITICAL",
             enforcement_action |-> "BLOCK_IMPLEMENTATION"] >>
    ELSE << >>

\* A pluggable check that returned.
check_result(check, o) ==
    IF o \in ViolationSeverity
    THEN << [principle |-> check, severity |-> o, enforcement_action |-> "REPORT"] >>
    ELSE << >>

\* detect_violations (lines 69-96): the three checks in order; an exception
\* of a check leaves detect_violations.
detect_violations(ctx, checks) ==
    IF checks.module_boundaries = "raise" \/ checks.security_compliance = "raise"
    THEN [raised |-> TRUE]
    ELSE [violations |-> check_tdd_compliance(ctx)
                         \o check_result("module_boundaries", checks.module_boundaries)
                         \o check_result("security_compliance", checks.security_compliance)]

DetectViolations(ctx, checks) ==
    /\ Called("tools.detect_violations", ctx, checks, detect_violations(ctx, checks))
    /\ UNCHANGED <<active_principles, listings>>

\* block_non_compliant_code (lines 146-170).
block_non_compliant_code(ctx, checks) ==
    LET detected == detect_violations(ctx, checks)
    IN  IF "raised" \in DOMAIN detected THEN detected
        ELSE LET critical_violations == SelectSeq(detected.violations,
                                                  LAMBDA v : v.severity = "CRITICAL")
             IN  IF Len(detected.violations) > 0 /\ Len(critical_violations) > 0
                 THEN [blocked |-> TRUE, authority |-> "SUPREME",
                       violations |-> critical_violations,
                       enforcement_action |-> "IMMEDIATE_BLOCK"]
                 ELSE [blocked |-> FALSE, violations |-> << >>]

BlockNonCompliantCode(ctx, checks) ==
    /\ Called("tools.block_non_compliant_code", ctx, checks, block_non_compliant_code(ctx, checks))
    /\ UNCHANGED <<active_principles, listings>>

\* detect_tdd_violation (lines 249-271); None is "None".
tools_detect_tdd_violation(ctx) ==
    LET violation_detected == /\ Len(Get(ctx, "implementation_files", << >>)) > 0
                              /\ Len(Get(ctx, "test_files", << >>)) = 0
    IN  [violation_detected |-> violation_detected,
         violation_type |-> IF violation_detected THEN "IMPLEMENTATION_WITHOUT_TESTS" ELSE "None",
         severity |-> IF violation_detected THEN "CRITICAL" ELSE "None",
         constitutional_principle |-> "TDD_REQUIRED_NON_NEGOTIABLE"]

ToolsDetectTddViolation(ctx) ==
    /\ Called("tools.detect_tdd_violation", ctx, EmptyDict, tools_detect_tdd_violation(ctx))
    /\ UNCHANGED <<active_principles, listings>>

\* get_constitutional_principles (lines 65-67).
RECURSIVE get_constitutional_principles(_)
get_constitutional_principles(principles) ==
    IF principles = << >> THEN << >>
    ELSE <<Head(principles).value>> \o get_constitutional_principles(Tail(principles))

\* The last two listings returned.
Listed(listing) == IF Len(listings) < 2 THEN Append(listings, listing) ELSE <<listings[2], listing>>

GetConstitutionalPrinciples ==
    /\ listings' = Listed(get_constitutional_principles(active_principles))
    /\ Called("tools.get_constitutional_principles", EmptyDict, EmptyDict,
              [returned |-> get_constitutional_principles(active_principles)])
    /\ UNCHANGED active_principles

\* _validate_tdd_principle (lines 231-237).
validate_tdd_principle(ctx) ==
    IF Len(Get(ctx, "code_changes", << >>)) > 0
    THEN Len(Get(ctx, "test_changes", << >>)) > 0
    ELSE TRUE

\* _validate_single_principle (lines 220-229).
validate_single_principle(principle, ctx) ==
    IF principle.name = "TDD_REQUIRED_NON_NEGOTIABLE" THEN validate_tdd_principle(ctx)
    ELSE TRUE

\* Mutant: only the principle with a validation of its own is checked.
validation_loop_skipping_defaults(principles, j, ctx, checked, compliance) ==
    [principles_checked |-> checked \o <<"TDD_REQUIRED_NON_NEGOTIABLE">>,
     compliance |-> Put(compliance, "TDD_REQUIRED_NON_NEGOTIABLE", validate_tdd_principle(ctx))]

\* The loop of validate_constitutional_principles (lines 206-211) over the
\* principles from the j-th on: principles_checked and compliance.
RECURSIVE validation_loop(_, _, _, _, _)
validation_loop(principles, j, ctx, checked, compliance) ==
    IF j > Len(principles)
    THEN [principles_checked |-> checked, compliance |-> compliance]
    ELSE validation_loop(principles, j + 1, ctx,
                         Append(checked, principles[j].value),
                         Put(compliance, principles[j].value,
                             validate_single_principle(principles[j], ctx)))

\* validate_constitutional_principles (lines 196-218).
validate_constitutional_principles(principles, ctx) ==
    LET done == validation_loop(principles, 1, ctx, << >>, EmptyDict)
    IN  [principles_checked |-> done.principles_checked,
         compliance |-> done.compliance,
         overall_compliant |-> \A k \in DOMAIN done.compliance : done.compliance[k],
         authority |-> "SUPREME"]

ValidateConstitutionalPrinciples(ctx) ==
    /\ Called("tools.validate_constitutional_principles", ctx, EmptyDict,
              validate_constitutional_principles(active_principles, ctx))
    /\ UNCHANGED <<active_principles, listings>>

\* ------------------------------- src/agents: ConstitutionalEnforcementAgent
\* detect_violation (lines 64-83), and detect_violations (lines 85-94) which
\* returns what it returns.
src_detect_violation(ctx) ==
    [violations_detected |-> TRUE, severity |-> "CRITICAL",
     violations |-> << [type |-> "TDD_VIOLATION", severity |-> "CRITICAL"] >>]

SrcDetectViolation(ctx) ==
    /\ Called("src.detect_violation", ctx, EmptyDict, src_detect_violation(ctx))
    /\ UNCHANGED <<active_principles, listings>>

\* block_non_compliant_code (lines 42-62).
src_block_non_compliant_code(ctx) ==
    LET violations == src_detect_violation(ctx)
    IN  IF Get(violations, "violations_detected", FALSE)
        THEN [blocked |-> TRUE, violations |-> Get(violations, "violations", << >>)]
        ELSE [blocked |-> FALSE, compliant |-> TRUE]

SrcBlockNonCompliantCode(ctx) ==
    /\ Called("src.block_non_compliant_code", ctx, EmptyDict, src_block_non_compliant_code(ctx))
    /\ UNCHANGED <<active_principles, listings>>

\* validate_constitutional_compliance (lines 99-120), without the
\* principles part.
src_validate_constitutional_compliance(ctx) ==
    LET violation_result == src_detect_violation(ctx)
    IN  [compliant |-> ~violation_result.violations_detected,
         violations |-> violation_result.violations]

SrcValidateConstitutionalCompliance(ctx) ==
    /\ Called("src.validate_constitutional_compliance", ctx, EmptyDict,
              src_validate_constitutional_compliance(ctx))
    /\ UNCHANGED <<active_principles, listings>>

\* Mutant: the test on the implementation files is left out.
src_detect_tdd_violation_no_implementation_test(ctx) ==
    LET has_tests == Len(Get(ctx, "test_files", << >>)) > 0
    IN  [violation_detected |-> ~has_tests,
         violation_type |-> IF ~has_tests THEN "IMPLEMENTATION_WITHOUT_TESTS" ELSE "None",
         severity |-> IF ~has_tests THEN "CRITICAL" ELSE "LOW"]

\* detect_tdd_violation (lines 122-138).
src_detect_tdd_violation(ctx) ==
    LET has_implementation == Len(Get(ctx, "implementation_files", << >>)) > 0
        has_tests          == Len(Get(ctx, "test_files", << >>)) > 0
    IN  [violation_detected |-> has_implementation /\ ~has_tests,
         violation_type |-> IF has_implementation /\ ~has_tests
                            THEN "IMPLEMENTATION_WITHOUT_TESTS" ELSE "None",
         severity |-> IF has_implementation /\ ~has_tests THEN "CRITICAL" ELSE "LOW"]

SrcDetectTddViolation(ctx) ==
    /\ Called("src.detect_tdd_violation", ctx, EmptyDict, src_detect_tdd_violation(ctx))
    /\ UNCHANGED <<active_principles, listings>>

\* detect_constitutional_violation (lines 155-169).
src_detect_constitutional_violation(attempt) ==
    LET violations == IF Get(attempt, "action", "None") = "implement_without_tests"
                      THEN << [type |-> "TDD_VIOLATION", severity |-> "CRITICAL"] >>
                      ELSE << >>
    IN  [violation_detected |-> Len(violations) > 0,
         violations |-> violations,
         severity |-> IF Len(violations) > 0 THEN "CRITICAL" ELSE "NONE"]

SrcDetectConstitutionalViolation(attempt) ==
    /\ Called("src.detect_constitutional_violation", attempt, EmptyDict,
              src_detect_constitutional_violation(attempt))
    /\ UNCHANGED <<active_principles, listings>>

\* ------------------------------------------ development: ImplementationGate
\* validate_implementation_attempt (lines 24-55).
validate_implementation_attempt(ctx) ==
    LET has_implementation == Len(Get(ctx, "implementation_files", << >>)) > 0
        has_tests          == Len(Get(ctx, "test_files", << >>)) > 0
    IN  IF has_implementation /\ ~has_tests
        THEN [implementation_allowed |-> FALSE, blocking_reason |-> "NO_TESTS_FOUND",
              constitutional_enforcement |-> TRUE]
        ELSE [implementation_allowed |-> TRUE, constitutional_compliant |-> TRUE]

ValidateImplementationAttempt(ctx) ==
    /\ Called("gate.validate_implementation_attempt", ctx, EmptyDict,
              validate_implementation_attempt(ctx))
    /\ UNCHANGED <<active_principles, listings>>

\* -------------------------------------------------- communication attempts
\* tools/events EventCoordinator.block_direct_service_calls (lines 111-136).
blocked_patterns == {"direct_service_call", "synchronous_call"}

block_direct_service_calls(ctx) ==
    LET is_direct_call == Get(ctx, "communication_type", "") \in blocked_patterns
    IN  [blocked |-> is_direct_call,
         constitutional_violation |-> is_direct_call,
         alternative_required |-> IF is_direct_call THEN "EVENT_DRIVEN_COMMUNICATION"
                                  ELSE "None"]

BlockDirectServiceCalls(ctx) ==
    /\ Called("tools.block_direct_service_calls", ctx, EmptyDict, block_direct_service_calls(ctx))
    /\ UNCHANGED <<active_principles, listings>>

\* src/events EventCoordinator.block_direct_service_calls (lines 131-150).
src_block_direct_service_calls(call_context) ==
    IF Get(call_context, "call_type", "None") = "direct"
    THEN [blocked |-> TRUE]
    ELSE [blocked |-> FALSE, compliant |-> TRUE]

SrcBlockDirectServiceCalls(ctx) ==
    /\ Called("src.block_direct_service_calls", ctx, EmptyDict, src_block_direct_service_calls(ctx))
    /\ UNCHANGED <<active_principles, listings>>

\* ModuleBoundaryEnforcer.validate_module_communication (lines 219-250).
validate_module_communication(ctx) ==
    LET communication_type == Get(ctx, "communication_type", "None")
    IN  IF communication_type = "event"
        THEN [allowed |-> TRUE, mechanism |-> "EVENT_DRIVEN", constitutional_compliant |-> TRUE]
        ELSE IF communication_type = "direct_service_call"
        THEN [allowed |-> FALSE, required_mechanism |-> "EVENT_DRIVEN",
              constitutional_violation |-> TRUE]
        ELSE [allowed |-> FALSE, reason |-> "UNKNOWN_COMMUNICATION_TYPE"]

ValidateModuleCommunication(ctx) ==
    /\ Called("boundaries.validate_module_communication", ctx, EmptyDict,
              validate_module_communication(ctx))
    /\ UNCHANGED <<active_principles, listings>>

NextCompliance ==
    \/ \E ctx \in FileContexts, checks \in Checks : DetectViolations(ctx, checks)
    \/ \E ctx \in FileContexts, checks \in Checks : BlockNonCompliantCode(ctx, checks)
    \/ \E ctx \in FileContexts : ToolsDetectTddViolation(ctx)
    \/ GetConstitutionalPrinciples
    \/ \E ctx \in ChangeContexts : ValidateConstitutionalPrinciples(ctx)
    \/ \E ctx \in FileContexts : SrcDetectViolation(ctx)
    \/ \E ctx \in FileContexts : SrcBlockNonCompliantCode(ctx)
    \/ \E ctx \in FileContexts : SrcValidateConstitutionalCompliance(ctx)
    \/ \E ctx \in FileContexts : SrcDetectTddViolation(ctx)
    \/ \E attempt \in AttemptContexts : SrcDetectConstitutionalViolation(attempt)
    \/ \E ctx \in FileContexts : ValidateImplementationAttempt(ctx)
    \/ \E ctx \in CommunicationContexts : BlockDirectServiceCalls(ctx)
    \/ \E ctx \in CommunicationContexts : SrcBlockDirectServiceCalls(ctx)
    \/ \E ctx \in CommunicationContexts : ValidateModuleCommunication(ctx)

SpecCompliance == Init /\ [][NextCompliance]_vars

\* ================================================= event coordinator (src)
\* src/src/events/event_coordinator.py, class EventCoordinator: a registry of
\* event types, each with its source module and its handlers.  Every
\* operation runs to its end in one step; publish_event invokes no handler.
Modules == {"m1", "m2"}

RegistryCalled(op, t, result) ==
    /\ registry_call' = [op |-> op, event_type |-> t, result |-> result]
    /\ UNCHANGED <<active_coordinations, engine, executed, cancel_boundary, submitted, bus,
                   enforcement, threads>>

\* The handlers an entry of the registry holds.
handlers_of(reg, t) == IF t \in DOMAIN reg THEN reg[t].handlers ELSE << >>

\* register_event (lines 20-27): the registry after the call.
register_event(reg, t, m) ==
    IF ~endswith(t, "Event") THEN reg
    ELSE Put(reg, t, [source_module |-> m, handlers |-> << >>])

RegisterEvent(t, m) ==
    /\ event_registry' = register_event(event_registry, t, m)
    /\ RegistryCalled("register_event", t, [returned |-> endswith(t, "Event")])

\* register_handler (lines 40-47): the registry after the call.
register_handler(reg, t, m, h) ==
    IF t \notin DOMAIN reg THEN reg
    ELSE [reg EXCEPT ![t].handlers = Append(@, [module |-> m, handler |-> h])]

RegisterHandler(t, m, h) ==
    /\ Len(handlers_of(event_registry, t)) < MaxHandlers
    /\ event_registry' = register_handler(event_registry, t, m, h)
    /\ RegistryCalled("register_handler", t, [returned |-> (t \in DOMAIN event_registry)])

\* subscribe_to_event (lines 119-129): the registry after the call.  The
\* handler itself is appended, not a module/handler pair.
registry_subscribe_to_event(reg, t, h) ==
    LET r == IF t \notin DOMAIN reg
             THEN Put(reg, t, [source_module |-> "unknown", handlers |-> << >>])
             ELSE reg
    IN  [r EXCEPT ![t].handlers = Append(@, [handler |-> h])]

RegistrySubscribeToEvent(t, h) ==
    /\ Len(handlers_of(event_registry, t)) < MaxHandlers
    /\ event_registry' = registry_subscribe_to_event(event_registry, t, h)
    /\ RegistryCalled("subscribe_to_event", t, [subscribed |-> TRUE, event_type |-> t])

\* publish_event (lines 96-107).
registry_publish_event(reg, t) ==
    IF t \notin DOMAIN reg
    THEN [published |-> FALSE, reason |-> "Event type not registered"]
    ELSE [published |-> TRUE, event_type |-> t, handlers_notified |-> Len(reg[t].handlers)]

RegistryPublishEvent(t) ==
    /\ event_registry' = event_registry
    /\ RegistryCalled("publish_event", t, registry_publish_event(event_registry, t))

\* validate_event_flow (lines 60-76).
validate_event_flow(reg, source_module, t) ==
    IF t \notin DOMAIN reg THEN [valid |-> FALSE, reason |-> "EVENT_NOT_REGISTERED"]
    ELSE IF reg[t].source_module # source_module
    THEN [valid |-> FALSE, reason |-> "INVALID_SOURCE_MODULE"]
    ELSE [valid |-> TRUE, event_type |-> t, flow_validated |-> TRUE]

ValidateEventFlow(m, t) ==
    /\ event_registry' = event_registry
    /\ RegistryCalled("validate_event_flow", t, validate_event_flow(event_registry, m, t))

\* get_registered_events (line 84): the keys of the registry (their order in
\* the list is not kept).
get_registered_events(reg) == [events |-> DOMAIN reg]

GetRegisteredEvents ==
    /\ event_registry' = event_registry
    /\ RegistryCalled("get_registered_events", << >>, get_registered_events(event_registry))

NextRegistry ==
    \/ \E t \in EventTypes, m \in Modules : RegisterEvent(t, m)
    \/ \E t \in EventTypes, m \in Modules, h \in Handlers : RegisterHandler(t, m, h)
    \/ \E t \in EventTypes, h \in Handlers : RegistrySubscribeToEvent(t, h)
    \/ \E t \in EventTypes : RegistryPublishEvent(t)
    \/ \E t \in EventTypes, m \in Modules : ValidateEventFlow(m, t)
    \/ GetRegisteredEvents

SpecRegistry == Init /\ [][NextRegistry]_vars

\* ===================================================================== claims
\* Vocabulary of the claims.
Idle(op) == pc = "idle" /\ frame = op

\* The units of run id that have been handed to the executor.
UnitsOf(id) == {u \in DOMAIN executed : u[1] = id}

Distinct(s) == Cardinality({s[j] : j \in 1..Len(s)}) = Len(s)

SequentialRun(id) ==
    id \in DOMAIN active_coordinations /\ active_coordinations[id].pattern = "SEQUENTIAL"

OrchestratedRun(id) ==
    id \in DOMAIN active_coordinations /\ active_coordinations[id].pattern = "ORCHESTRATED"

\* ------------------------------------------------------------------------ C1
\* C1: in a sequential coordination over u1..un, once uk has returned a
\* non-compliant result the units executed are exactly u1..uk (u1..uk-1
\* compliant, none of uk+1..un ever handed to the executor), and the result
\* coordinate_agents returns holds exactly the results of u1..uk and reports
\* the coordination unsuccessful.
C1_SequentialStopsAtFirstViolation ==
    \A u \in DOMAIN executed :
        (SequentialRun(u[1]) /\ executed[u] = "violation") =>
            /\ UnitsOf(u[1]) = {Unit(u[1], 1, j) : j \in 1..u[3]}
            /\ \A j \in 1..(u[3] - 1) : executed[Unit(u[1], 1, j)] = "ok"
            /\ (Idle("coordinate_agents") /\ coordination_id = u[1]) =>
                   /\ "agent_results" \in DOMAIN ret
                   /\ DOMAIN ret.agent_results = {agents[j] : j \in 1..u[3]}
                   /\ ret.coordination_successful = FALSE
                   /\ Get(ret, "failed_agent", "none") = agents[u[3]]

\* A three-unit sequential run has returned after its second unit was
\* non-compliant: the third unit exists and was not executed.
C1_Witness ==
    /\ Idle("coordinate_agents")
    /\ pattern = "SEQUENTIAL"
    /\ Len(agents) = 3
    /\ Unit(coordination_id, 1, 2) \in DOMAIN executed
    /\ executed[Unit(coordination_id, 1, 2)] = "violation"

\* ------------------------------------------------------------------------ C4
\* The units of a returned pool run and their outcomes.
Outcome(id, j) == executed[Unit(id, 1, j)]

ExactlyOneViolation(id, n) ==
    \E j \in 1..n :
        /\ Outcome(id, j) = "violation"
        /\ \A m \in (1..n) \ {j} : Outcome(id, m) = "ok"

\* C4: a parallel coordination of N units with distinct ids, exactly one of
\* which returns a non-compliant result, returns (whatever the completion
\* order) a result with an entry for each of the N units, the violating
\* unit's entry non-compliant, and constitutional_compliant = false.
C4_ParallelKeepsAllResults ==
    (/\ Idle("coordinate_agents")
     /\ pattern = "PARALLEL"
     /\ agents # << >>
     /\ Distinct(agents)
     /\ ExactlyOneViolation(coordination_id, Len(agents))) =>
        /\ DOMAIN ret.agent_results = {agents[j] : j \in 1..Len(agents)}
        /\ \A j \in 1..Len(agents) :
               Compliant(ret.agent_results[agents[j]]) = (Outcome(coordination_id, j) = "ok")
        /\ ret.constitutional_compliant = FALSE

\* A parallel run of three distinct units has returned, its second unit the
\* only non-compliant one.
C4_Witness ==
    /\ Idle("coordinate_agents")
    /\ pattern = "PARALLEL"
    /\ Len(agents) = 3
    /\ Distinct(agents)
    /\ Outcome(coordination_id, 2) = "violation"
    /\ ExactlyOneViolation(coordination_id, 3)

\* ------------------------------------------------------------------------ C6
\* The plan of run id, and whether the check of its phase q has passed: every
\* unit of q has returned, and for each unit id of q the result kept for it
\* (the one of its last unit) is compliant.
PlanOf(id) == create_orchestration_plan(active_coordinations[id].agents)

PhaseDone(id, q) ==
    \A j \in 1..Len(PlanOf(id)[q].agents) :
        /\ Unit(id, q, j) \in DOMAIN executed
        /\ executed[Unit(id, q, j)] \in {"ok", "violation"}

PhasePassed(id, q) ==
    LET ags == PlanOf(id)[q].agents
    IN  /\ PhaseDone(id, q)
        /\ \A j \in 1..Len(ags) :
               (\A m \in (j + 1)..Len(ags) : ags[m] # ags[j]) => executed[Unit(id, q, j)] = "ok"

PhaseAgents(id, q) == {PlanOf(id)[q].agents[j] : j \in 1..Len(PlanOf(id)[q].agents)}

C2_WorkflowHaltsLaterPhases ==
    frame = "orchestrate_workflow" =>
        \A u \in DOMAIN executed :
            executed[u] = "violation" =>
                /\ \A v \in DOMAIN executed : v[1] <= u[1]
                /\ pc = "idle" => ret.constitutional_compliant = FALSE

\* ------------------------------------------------------------------------ C3
\* The unit id of a unit of an orchestrated run.
AgentOf(u) == PlanOf(u[1])[u[2]].agents[u[3]]

\* C3: in the result of coordinate_multi_agent_workflow an entry of
\* agent_results is reported constitutional_compliant only if no unit with
\* that id returned a non-compliant result.
C3_ViolationsNotSwallowed ==
    (Idle("coordinate_multi_agent_workflow") /\ "agent_results" \in DOMAIN ret) =>
        \A u \in UnitsOf(coordination_id) :
            (executed[u] = "violation" /\ AgentOf(u) \in DOMAIN ret.agent_results) =>
                ~Compliant(ret.agent_results[AgentOf(u)])

\* ------------------------------------------------------------------------ C5
\* C5: in a parallel coordination of units with distinct ids (through
\* coordinate_agents or through coordinate_parallel_execution), a unit whose
\* executor raised has an error entry that counts as non-compliant, every
\* other unit has its own result recorded, and the run is not reported
\* compliant or successful.
C5_ParallelExecutorFault ==
    /\ (Idle("coordinate_agents") /\ pattern = "PARALLEL" /\ Distinct(agents)) =>
           \A j \in 1..Len(agents) :
               Outcome(coordination_id, j) = "raise" =>
                   /\ DOMAIN ret.agent_results = {agents[m] : m \in 1..Len(agents)}
                   /\ "error" \in DOMAIN ret.agent_results[agents[j]]
                   /\ ~Compliant(ret.agent_results[agents[j]])
                   /\ ret.constitutional_compliant = FALSE
    /\ (Idle("coordinate_parallel_execution") /\ Distinct(agents)) =>
           \A j \in 1..Len(agents) :
               Outcome(-1, j) = "raise" =>
                   /\ DOMAIN ret.results = {agents[m] : m \in 1..Len(agents)}
                   /\ "error" \in DOMAIN ret.results[agents[j]]
                   /\ ~Compliant(ret.results[agents[j]])
                   /\ ret.parallel_coordination_successful = FALSE

\* ------------------------------------------------------------------------ C7
\* The status a halted run is to have; the engine's own word for an
\* unsuccessful end, FAILED, is accepted for it.
HaltedStatus == {"HALTED", "FAILED"}

\* C7: when coordinate_agents has returned and a unit of its run returned a
\* non-compliant result, get_coordination_status gives the run the halted
\* status, not COMPLETED.
C7_ViolationGivesHaltedStatus ==
    (/\ Idle("coordinate_agents")
     /\ \E u \in UnitsOf(coordination_id) : executed[u] = "violation") =>
        get_coordination_status(coordination_id).status \in HaltedStatus

\* ------------------------------------------------------------------------ C8
TerminalStatus == {"COMPLETED", "HALTED", "FAILED"}

\* C8: once the recorded status of a coordination is terminal, no step of
\* any operation changes it.
C8_TerminalStatusAbsorbing ==
    [][\A id \in DOMAIN active_coordinations :
           active_coordinations[id].status \in TerminalStatus =>
               active_coordinations'[id].status = active_coordinations[id].status]_vars

\* ------------------------------------------------------------------------ C9
\* C9: a run that coordinate_agents has ended halted or unsuccessful has a
\* violation recorded for one of its units: a non-compliant entry in the
\* agent_results it returned.
C9_HaltedRunHasViolation ==
    (/\ Idle("coordinate_agents")
     /\ \/ get_coordination_status(coordination_id).status \in HaltedStatus
        \/ ~Get(ret, "coordination_successful", TRUE)) =>
        \E x \in DOMAIN Get(ret, "agent_results", EmptyDict) :
            ~Compliant(ret.agent_results[x])

\* ----------------------------------------------------------------------- C10
\* C10: once a compliance-check boundary of a run has passed with a stop
\* requested for it, the run hands no further unit to the executor.
C10_NoUnitAfterCancel ==
    [][cancel_boundary => (DOMAIN executed' \subseteq DOMAIN executed)]_vars

\* ----------------------------------------------------------------------- C11
\* A publish call of the event coordinator has returned.
Published == pub.bus = "EventCoordinator" /\ pub.pc = "idle"

\* C11: a publish of an event whose type does not end with "Event" invokes
\* no handler, and the result it returns has published = false.
C11_NonEventTypeNotDelivered ==
    (pub.bus = "EventCoordinator" /\ ~endswith(pub.event_type, "Event")) =>
        /\ pub.invoked = << >>
        /\ Published => Get(pub.ret, "published", TRUE) = FALSE

\* ----------------------------------------------------------------------- C12
Count(h, s) == Cardinality({j \in 1..Len(s) : s[j] = h})

\* C12: when a publish is over, every handler that was subscribed to the
\* type when publish was called has been invoked, once per subscription,
\* whichever of them raised, and the result holds one entry per invoked
\* handler saying whether that handler succeeded.
C12_RaisingHandlerDoesNotStopDelivery ==
    (pub.bus # "none" /\ pub.pc = "idle") =>
        /\ Len(pub.invoked) >= Len(pub.at_call)
        /\ \A h \in Handlers :
               Count(h, SubSeq(pub.invoked, 1, Len(pub.at_call))) = Count(h, pub.at_call)
        /\ "delivery_results" \in DOMAIN pub.ret
        /\ Len(pub.ret.delivery_results) = Len(pub.invoked)
        /\ \A j \in 1..Len(pub.invoked) :
               pub.ret.delivery_results[j].delivered = (pub.outcomes[j] = "ok")

\* ----------------------------------------------------------------------- C13
\* C13: the handlers held for a type are all the handlers subscribed to it,
\* in the order of the subscribe calls; publish invokes the handlers that
\* were subscribed when it was called in that order, and the entries of
\* delivery_results follow the order of invocation.
C13_SubscriptionOrder ==
    /\ DOMAIN event_subscribers = DOMAIN subscribe_log
    /\ \A t \in DOMAIN subscribe_log : event_subscribers[t] = subscribe_log[t]
    /\ pub.bus = "EventCoordinator" =>
           /\ \A j \in 1..Len(pub.invoked) :
                  /\ j <= Len(pub.at_call) => pub.invoked[j] = pub.at_call[j]
                  /\ pub.delivery_results[j].subscriber = pub.invoked[j]
           /\ Published =>
                  /\ SubSeq(pub.invoked, 1, Len(pub.at_call)) = pub.at_call
                  /\ pub.ret.delivery_results = pub.delivery_results
                  /\ pub.ret.subscribers_notified = Len(pub.invoked)

\* A publish to a type with h2 subscribed before h1 has returned, h2 having
\* raised.
C13_Witness ==
    /\ Published
    /\ pub.at_call = <<"h2", "h1">>
    /\ pub.invoked = <<"h2", "h1">>
    /\ pub.outcomes = <<"raise", "ok">>
    /\ pub.ret.delivery_results[2].subscriber = "h1"

\* ----------------------------------------------------------------------- C14
\* The context names implementation files and no test file.
ImplementationWithoutTests(ctx) ==
    /\ Len(Get(ctx, "implementation_files", << >>)) > 0
    /\ Len(Get(ctx, "test_files", << >>)) = 0

\* The checks that fail on the context of the last call.
FailingChecks ==
    (IF ImplementationWithoutTests(call.context) THEN {"tdd_compliance"} ELSE {})
    \cup {k \in DOMAIN call.checks : call.checks[k] \in ViolationSeverity}

NoCheckRaised == \A k \in DOMAIN call.checks : call.checks[k] # "raise"

\* C14: violation detection returns one violation per check that fails on
\* the context and none for a check that passes; a context on which no
\* check fails gets an empty list and is reported compliant.
C14_ViolationsAreTheFailingChecks ==
    /\ (call.op \in {"tools.detect_violations", "src.detect_violation"} /\ NoCheckRaised) =>
           /\ "violations" \in DOMAIN call.result
           /\ Len(call.result.violations) = Cardinality(FailingChecks)
    /\ call.op = "src.validate_constitutional_compliance" =>
           /\ call.result.compliant = (FailingChecks = {})
           /\ Len(call.result.violations) = Cardinality(FailingChecks)

\* ----------------------------------------------------------------------- C15
\* C15: detect_tdd_violation reports a violation, and the severity
\* CRITICAL, exactly when the context names implementation files and no
\* test file; validate_implementation_attempt refuses (implementation_allowed
\* false, blocking_reason NO_TESTS_FOUND) in exactly those cases.
C15_ImplementationWithoutTests ==
    /\ call.op \in {"src.detect_tdd_violation", "tools.detect_tdd_violation"} =>
           /\ call.result.violation_detected = ImplementationWithoutTests(call.context)
           /\ (call.result.severity = "CRITICAL") = ImplementationWithoutTests(call.context)
    /\ call.op = "gate.validate_implementation_attempt" =>
           /\ call.result.implementation_allowed = (~ImplementationWithoutTests(call.context))
           /\ (Get(call.result, "blocking_reason", "None") = "NO_TESTS_FOUND")
                  = ImplementationWithoutTests(call.context)

\* detect_tdd_violation has reported the CRITICAL violation of a context
\* with one implementation file and an empty list of test files.
C15_Witness ==
    /\ call.op = "src.detect_tdd_violation"
    /\ call.context = [implementation_files |-> <<"f">>, test_files |-> << >>]
    /\ call.result.violation_detected
    /\ call.result.severity = "CRITICAL"

\* ----------------------------------------------------------------------- C16
SeverityRank(sev) ==
    IF sev = "CRITICAL" THEN 4 ELSE IF sev = "HIGH" THEN 3 ELSE IF sev = "MEDIUM" THEN 2
    ELSE IF sev = "LOW" THEN 1 ELSE 0

\* The rank of the highest severity among the violations; 0 (NONE) if none.
MaxSeverityRank(violations) ==
    Highest({SeverityRank(violations[j].severity) : j \in 1..Len(violations)})

\* C16: the severity a detection result reports is the highest severity
\* among the violations it returns, and it is NONE exactly when it returns
\* no violation.
C16_OverallSeverityIsMaximum ==
    call.op \in {"src.detect_constitutional_violation", "src.detect_violation",
                 "src.detect_tdd_violation", "tools.detect_tdd_violation"} =>
        IF "violations" \in DOMAIN call.result
        THEN SeverityRank(call.result.severity) = MaxSeverityRank(call.result.violations)
        ELSE (SeverityRank(call.result.severity) = 0) = (~call.result.violation_detected)

\* ----------------------------------------------------------------------- C17
HasCritical(violations) == \E j \in 1..Len(violations) : violations[j].severity = "CRITICAL"

\* C17: block_non_compliant_code blocks exactly when a detected violation
\* is CRITICAL, and when it does not block it returns the violations that
\* were detected.
C17_BlocksOnCriticalOnly ==
    /\ (call.op = "tools.block_non_compliant_code" /\ NoCheckRaised) =>
           LET detected == detect_violations(call.context, call.checks).violations
           IN  /\ call.result.blocked = HasCritical(detected)
               /\ ~call.result.blocked => Get(call.result, "violations", << >>) = detected
    /\ call.op = "src.block_non_compliant_code" =>
           LET detected == src_detect_violation(call.context).violations
           IN  /\ call.result.blocked = HasCritical(detected)
               /\ ~call.result.blocked => Get(call.result, "violations", << >>) = detected

\* ----------------------------------------------------------------------- C18
IsEvent(ctx) == Get(ctx, "communication_type", "None") = "event"

\* C18: a communication attempt is allowed only when it is an event, and
\* the event coordinator and the module-boundary enforcer give the same
\* verdict on every attempt.
C18_OnlyEventsAllowed ==
    /\ call.op \in {"tools.block_direct_service_calls", "src.block_direct_service_calls"} =>
           /\ ~call.result.blocked => IsEvent(call.context)
           /\ (~call.result.blocked) = validate_module_communication(call.context).allowed
    /\ call.op = "boundaries.validate_module_communication" =>
           (call.result.allowed => IsEvent(call.context))

\* ----------------------------------------------------------------------- C19
\* C19: when a check raises, detection still returns: its list holds a
\* CRITICAL violation EVALUATOR_FAULT for that check and the violations of
\* the other checks, and block_non_compliant_code blocks.
C19_RaisingCheckIsCritical ==
    (call.op \in {"tools.detect_violations", "tools.block_non_compliant_code"} /\ ~NoCheckRaised) =>
        /\ "violations" \in DOMAIN call.result
        /\ \E j \in 1..Len(call.result.violations) :
               /\ call.result.violations[j].principle = "EVALUATOR_FAULT"
               /\ call.result.violations[j].severity = "CRITICAL"
        /\ Len(call.result.violations) >= Cardinality(FailingChecks) + 1
        /\ call.op = "tools.block_non_compliant_code" => call.result.blocked

\* ----------------------------------------------------------------------- C20
PrincipleValues == {ConstitutionalPrinciple[j].value : j \in 1..Len(ConstitutionalPrinciple)}

\* C20: the listings returned by successive calls of
\* get_constitutional_principles are the same sequence, which holds each of
\* the eight principles once; validate_constitutional_principles checks that
\* sequence, each principle once and in that order.
C20_PrinciplesListedOnceInOrder ==
    /\ \A j \in 1..Len(listings) :
           /\ listings[j] = listings[1]
           /\ Len(listings[j]) = 8
           /\ Distinct(listings[j])
           /\ {listings[j][k] : k \in 1..Len(listings[j])} = PrincipleValues
    /\ call.op = "tools.validate_constitutional_principles" =>
           /\ call.result.principles_checked = get_constitutional_principles(active_principles)
           /\ DOMAIN call.result.compliance = PrincipleValues
           /\ \A j \in 1..Len(listings) : call.result.principles_checked = listings[j]

\* Two listings have been returned, and the last call validated a context
\* with a code change and no test change.
C20_Witness ==
    /\ Len(listings) = 2
    /\ call.op = "tools.validate_constitutional_principles"
    /\ Len(call.result.principles_checked) = 8
    /\ call.context = [code_changes |-> <<"f">>]
    /\ ~call.result.overall_compliant

\* ----------------------------------------------------------------------- C21
Ids(ags) == {ags[j] : j \in 1..Len(ags)}

\* The declarations a client can make for the units of a list: each unit
\* depends on units of the list, and the relation can be layered (no cycle).
Declarations(ags) ==
    {tasks \in [Ids(ags) -> {AgentTask(x, D) : x \in Ids(ags), D \in SUBSET Ids(ags)}] :
        /\ \A x \in Ids(ags) : tasks[x].agent = x
        /\ \E r \in [Ids(ags) -> 1..Cardinality(Ids(ags))] :
               \A x \in Ids(ags) : \A d \in tasks[x].dependencies : r[d] < r[x]}

\* C21: whatever dependencies are declared for the units of an orchestrated
\* run, its plan places a unit in a phase only if each of its dependencies
\* is placed in an earlier phase, and in no other.
C21_PlanRespectsDependencies ==
    \A id \in DOMAIN active_coordinations :
        OrchestratedRun(id) =>
            \A tasks \in Declarations(active_coordinations[id].agents) :
                \A p \in 1..Len(PlanOf(id)) :
                    \A x \in PhaseAgents(id, p) :
                        \A d \in tasks[x].dependencies :
                            /\ \E q \in 1..(p - 1) : d \in PhaseAgents(id, q)
                            /\ \A q \in p..Len(PlanOf(id)) : d \notin PhaseAgents(id, q)

\* ----------------------------------------------------------------------- C30
\* The units of a plan's phases, in phase order.
RECURSIVE PlanUnits(_)
PlanUnits(pl) == IF pl = << >> THEN << >> ELSE Head(pl).agents \o PlanUnits(Tail(pl))

\* The positions of a plan: <<phase, index in the phase>>.
Positions(pl) == UNION {{<<p, j>> : j \in 1..Len(pl[p].agents)} : p \in 1..Len(pl)}

\* C30: the phases of the plan of an orchestrated run, concatenated in phase
\* order, are the run's unit list; the run executes units of the plan only,
\* and a run that has returned successful has executed every position of
\* the plan, each once.
C30_PlanIsOrderPreservingPartition ==
    /\ \A id \in DOMAIN active_coordinations :
           OrchestratedRun(id) =>
               /\ PlanUnits(PlanOf(id)) = active_coordinations[id].agents
               /\ \A u \in UnitsOf(id) : <<u[2], u[3]>> \in Positions(PlanOf(id))
    /\ pc \in {"orch_loop", "orch_exec"} => PlanUnits(locals.plan) = agents
    /\ (Idle("coordinate_agents") /\ pattern = "ORCHESTRATED"
            /\ "orchestration_plan" \in DOMAIN ret) =>
           /\ PlanUnits(ret.orchestration_plan) = agents
           /\ {<<u[2], u[3]>> : u \in UnitsOf(coordination_id)} = Positions(ret.orchestration_plan)

\* An orchestrated run of three units has returned its plan: one unit in the
\* first phase, two in the second, all executed.
C30_Witness ==
    /\ Idle("coordinate_agents")
    /\ pattern = "ORCHESTRATED"
    /\ Len(agents) = 3
    /\ "orchestration_plan" \in DOMAIN ret
    /\ Len(ret.orchestration_plan[1].agents) = 1
    /\ Len(ret.orchestration_plan[2].agents) = 2
    /\ Cardinality(UnitsOf(coordination_id)) = 3

\* ----------------------------------------------------------------------- C22
\* The Parallel discipline for the units of phase p of run id: the units are
\* submitted together, so none of them waits for another to return.
StartedTogether(id, p, n) ==
    (\E j \in 1..n : Unit(id, p, j) \in DOMAIN executed) =>
        \A j \in 1..n : Unit(id, p, j) \in DOMAIN executed

\* C22: in an orchestrated run the units of one phase execute under the
\* Parallel discipline: once a unit of a phase has been handed to the
\* executor every unit of that phase has, whether or not another unit of
\* the phase has returned.
C22_PhaseUnitsRunInParallel ==
    \A id \in DOMAIN active_coordinations :
        OrchestratedRun(id) =>
            \A p \in 1..Len(PlanOf(id)) : StartedTogether(id, p, Len(PlanOf(id)[p].agents))

\* The same of the runs of the Parallel discipline itself, which has it.
ParallelRunsStartTogether ==
    \A id \in DOMAIN active_coordinations :
        active_coordinations[id].pattern = "PARALLEL" =>
            StartedTogether(id, 1, Len(active_coordinations[id].agents))

\* ----------------------------------------------------------------------- C25
\* C25: once stop_coordination has recorded STOPPED for a coordination, no
\* step changes that status; the end of the run in particular does not
\* replace it by COMPLETED or FAILED.
C25_StoppedStaysStopped ==
    [][\A id \in DOMAIN active_coordinations :
           active_coordinations[id].status = "STOPPED" =>
               active_coordinations'[id].status = "STOPPED"]_vars

\* ----------------------------------------------------------------------- C27
\* The step in which coordinate_agents returns to its caller.
Returns ==
    /\ frame' = "coordinate_agents"
    /\ pc' = "idle"
    /\ pc # "idle" \/ DOMAIN active_coordinations' # DOMAIN active_coordinations

\* C27: coordinate_agents returns a result and raises nothing, whatever the
\* unit list and the pattern; when it returns, the status recorded for its
\* run is FAILED, with coordination_successful = false in the result, if
\* the discipline raised (a unit's executor raised outside the pool, or the
\* pool could not be created), and COMPLETED if the discipline returned.
C27_ReturnsWithFinalStatus ==
    [][Returns =>
           LET id     == coordination_id'
               raised == \/ pattern' = "PARALLEL" /\ agents' = << >>
                         \/ /\ pattern' # "PARALLEL"
                            /\ \E u \in DOMAIN executed' : u[1] = id /\ executed'[u] = "raise"
           IN  /\ "coordination_successful" \in DOMAIN ret'
               /\ "raised" \notin DOMAIN ret'
               /\ active_coordinations'[id].status = IF raised THEN "FAILED" ELSE "COMPLETED"
               /\ raised => /\ ret'.coordination_successful = FALSE
                            /\ "error" \in DOMAIN ret']_vars

\* coordinate_agents has returned from a sequential run of two units whose
\* second unit's executor raised: the run is recorded FAILED.
C27_Witness ==
    /\ Idle("coordinate_agents")
    /\ pattern = "SEQUENTIAL"
    /\ Len(agents) = 2
    /\ Unit(coordination_id, 1, 2) \in DOMAIN executed
    /\ executed[Unit(coordination_id, 1, 2)] = "raise"
    /\ get_coordination_status(coordination_id).status = "FAILED"
    /\ ret = FailedResult(ExecutorError, coordination_id)

\* ----------------------------------------------------------------------- C28
\* C28: coordinate_agents of an empty unit list returns, under each of the
\* three patterns, coordination_successful = true with empty agent_results,
\* executes no unit, and leaves the run recorded COMPLETED.
C28_EmptyListSameUnderAllPatterns ==
    [][(Returns /\ agents' = << >>) =>
           /\ Get(ret', "coordination_successful", FALSE) = TRUE
           /\ Get(ret', "agent_results", "none") = EmptyDict
           /\ \A u \in DOMAIN executed' : u[1] # coordination_id'
           /\ active_coordinations'[coordination_id'].status = "COMPLETED"]_vars

\* ----------------------------------------------------------------------- C26
\* C26: every call of coordinate_agents has a coordination id of its own,
\* also when calls of different threads overlap: the ids under which the
\* calls stored their records are distinct, and active_coordinations holds
\* one record per call.
C26_OneRecordPerCall ==
    /\ Distinct(started)
    /\ Records = Len(started)

\* ----------------------------------------------------------------------- C24
\* C24: whatever register_event, register_handler and subscribe_to_event
\* calls have been made, every event type of the registry ends with
\* "Event": so do the types get_registered_events lists and the types for
\* which publish_event returns published = true.
C24_RegistryHoldsEventTypesOnly ==
    /\ \A t \in DOMAIN event_registry : endswith(t, "Event")
    /\ registry_call.op = "get_registered_events" =>
           \A t \in registry_call.result.events : endswith(t, "Event")
    /\ (registry_call.op = "publish_event" /\ registry_call.result.published) =>
           endswith(registry_call.event_type, "Event")

\* ----------------------------------------------------------------------- C29
\* C29: no operation of the event coordinator removes a handler from an
\* event type: the handlers a type holds after a step begin with those it
\* held before, so the handlers_notified of a publish does not decrease.
C29_HandlersNeverLost ==
    [][\A t \in DOMAIN event_registry :
           /\ t \in DOMAIN event_registry'
           /\ Len(event_registry'[t].handlers) >= Len(event_registry[t].handlers)
           /\ SubSeq(event_registry'[t].handlers, 1, Len(event_registry[t].handlers))
                  = event_registry[t].handlers]_vars

\* ----------------------------------------------------------------------- C23
\* C23: a publish of the event coordinator works on the handlers that were
\* subscribed to the type when it was called, whatever is subscribed while
\* it is in progress: it invokes only those, it has invoked each of them
\* once per subscription when it returns, and the subscribers_notified it
\* returns is the number of entries of its delivery_results.
C23_PublishUsesSubscribersAtCall ==
    pub.bus = "EventCoordinator" =>
        /\ \A h \in Handlers : Count(h, pub.invoked) <= Count(h, pub.at_call)
        /\ Published =>
               /\ \A h \in Handlers : Count(h, pub.invoked) = Count(h, pub.at_call)
               /\ pub.ret.subscribers_notified = Len(pub.ret.delivery_results)

====
